---- MODULE Spec2Model ----
(***************************************************************************)
(* Model of src/harmonai/training/autoencoders.py:                         *)
(*   AutoencoderTrainingWrapper.training_step  (manual GAN optimisation)   *)
(*   AutoencoderDemoCallback.on_train_batch_end (periodic demo rendering)  *)
(* Loss values are integers; weighted losses are carried in units of       *)
(* 1/Scale so that the weights 0.1, 10 and 1e-3 stay integral.             *)
(***************************************************************************)
EXTENDS Integers, Sequences, FiniteSets, TLC

VARIABLES
    \* ---- trainer (pytorch_lightning) ----
    global_step,        \* trainer.global_step / self.global_step
    pc,                 \* "training_step" | "advance": position in the fit loop
    \* ---- AutoencoderTrainingWrapper ----
    warmed_up,          \* self.warmed_up
    warmup_steps,       \* self.warmup_steps
    bottleneck,         \* self.autoencoder.bottleneck
    batch,              \* the values the losses take on the training batch
    gradGen,            \* .grad of the autoencoder parameters: ages deposited
    gradDisc,           \* .grad of the discriminator parameters: ages deposited
    \* ---- observation of the last training_step call ----
    called,             \* number of calls observed so far, saturating at 2
    callStep,           \* self.global_step as read by the last call
    callWarm,           \* self.warmed_up at line 77 of the last call
    reached,            \* some call so far read global_step >= warmup_steps
    decreased,          \* global_step went down between two calls
    backpropagated,     \* the value passed to manual_backward, in 1/Scale
    discEvaluated,      \* discriminator.loss was called (line 78)
    klRead,             \* encoder_info['kl'] was read (line 107)
    ops,                \* optimizer / backward calls of the last call, in order
    consumed,           \* ages of the gradients the stepped optimizer applied
    loss,               \* the value returned (line 129), in 1/Scale
    log_dict,           \* the dict passed to self.log_dict (line 127), in 1/Scale
    prevCall,           \* [step, warm, stepped] of the call before the last
    \* ---- AutoencoderDemoCallback ----
    rank,               \* rank_zero_only.rank of this process
    demo_every,         \* self.demo_every
    last_demo_step,     \* self.last_demo_step
    demo_dl,            \* batches left in the iterator self.demo_dl
    logged,             \* steps passed to trainer.logger.experiment.log
    files,              \* wav files written by torchaudio.save
    \* ---- observation of the on_train_batch_end calls ----
    started,            \* global_step values at which a demo was started
    mono,               \* global_step never decreased from call to call
    cbStep,             \* global_step of the last call (-1: no call yet)
    cbOutcome           \* what the last call found and did: started (a demo
                        \* was started), failed (where the try block failed),
                        \* raised, propagated (out of the callback), last and
                        \* dl (last_demo_step and demo_dl as found), again (a
                        \* demo had been started at this step before), sent
                        \* (the logger received a step), touched (a field of
                        \* the callback, the logger or the disk changed)

trainVars == <<warmed_up, gradGen, gradDisc, called, callStep, callWarm,
               reached, decreased, backpropagated,
               discEvaluated, klRead, ops, consumed, loss, log_dict, prevCall>>
trainCfg == <<warmup_steps, bottleneck, batch>>
demoVars == <<last_demo_step, demo_dl, logged, files, started, mono,
              cbStep, cbOutcome>>
demoCfg == <<rank, demo_every>>
vars == <<global_step, pc, trainVars, trainCfg, demoVars, demoCfg>>

\* ------------------------------------------------------------------ bounds
MaxStep == 5
MaxWarmup == 3
MaxDemoEvery == 3
MaxDemoBatches == 1
MaxRank == 1
MaxDemoStep == 4

\* ------------------------------------------------------- program constants
\* Fixed-point unit: 1 is carried as Scale (the inverse of the 1e-3 KL weight).
Scale == 1000
\* 0.1 * loss_adv
AdvWeight == 100
\* 10 * feature_matching_distance
FmWeight == 10000
\* 1e-3 * kl
KlWeight == 1

\* The values a loss tensor takes (whole units)
Vals == {0, 1}
Bottlenecks == {"vae", "none"}
Inputs == [mrstft : Vals, l1 : Vals, dis : Vals, adv : Vals, fm : Vals,
           kl : Vals, std : Vals]
EmptyDict == [k \in {} |-> 0]

\* ------------------------------------------------------------ training_step
\* Faulty variant: the flag follows the comparison instead of latching
WarmedUpNoLatch(w, gs, ws) == gs >= ws

\* lines 64-65: if self.global_step >= self.warmup_steps: self.warmed_up = True
WarmedUpAfter(w, gs, ws) == IF gs >= ws THEN TRUE ELSE w

\* Faulty variant: the discriminator is evaluated during warm-up too
DiscriminatorLossesNoWarmup(w, x) ==
    [loss_dis |-> x.dis, loss_adv |-> x.adv,
     feature_matching_distance |-> x.fm]

\* lines 77-82: the discriminator's three losses, or zeros before warm-up
DiscriminatorLosses(w, x) ==
    IF w THEN [loss_dis |-> x.dis, loss_adv |-> x.adv,
               feature_matching_distance |-> x.fm]
    ELSE [loss_dis |-> 0, loss_adv |-> 0, feature_matching_distance |-> 0]

\* Faulty variant: the parity test is dropped
IsDiscStepNoParity(gs, w) == w

\* line 85: if self.global_step % 2 and self.warmed_up
IsDiscStep(gs, w) == (gs % 2 # 0) /\ w

\* Faulty variant: the adversarial term enters unweighted
WeightedAdvRaw(loss_adv) == Scale * loss_adv

\* line 99
WeightedAdv(loss_adv) == AdvWeight * loss_adv
\* line 101
WeightedFm(fmd) == FmWeight * fmd
\* line 108
KlLoss(kl) == KlWeight * kl

\* Faulty variant: the KL term is added for every bottleneck
GeneratorLossAlwaysKl(x, d, bn) ==
    Scale * x.mrstft + WeightedAdv(d.loss_adv)
    + WeightedFm(d.feature_matching_distance) + KlLoss(x.kl)

\* lines 104-109: loss = mrstft_loss + loss_adv + feature_matching_distance,
\* plus kl_loss for a "vae" bottleneck (l1_time_loss is not added)
GeneratorLoss(x, d, bn) ==
    LET base == Scale * x.mrstft + WeightedAdv(d.loss_adv)
                + WeightedFm(d.feature_matching_distance)
    IN  IF bn = "vae" THEN base + KlLoss(x.kl) ELSE base

\* lines 106-107: encoder_info['kl'] is read only for a "vae" bottleneck
ReadsKl(bn) == bn = "vae"

\* lines 115-125
GeneratorLog(x, d, bn) ==
    LET base == [k \in {"train/loss", "train/mrstft_loss", "train/l1_time_loss",
                        "train/loss_adv", "train/feature_matching",
                        "train/latent_std"} |->
                   CASE k = "train/loss" -> GeneratorLoss(x, d, bn)
                     [] k = "train/mrstft_loss" -> Scale * x.mrstft
                     [] k = "train/l1_time_loss" -> Scale * x.l1
                     [] k = "train/loss_adv" -> WeightedAdv(d.loss_adv)
                     [] k = "train/feature_matching" ->
                            WeightedFm(d.feature_matching_distance)
                     [] OTHER -> Scale * x.std]
    IN  IF bn = "vae"
        THEN [k \in DOMAIN base \cup {"train/kl_loss"} |->
                IF k = "train/kl_loss" THEN KlLoss(x.kl) ELSE base[k]]
        ELSE base

\* lines 88-90
DiscriminatorLog(d) ==
    [k \in {"train/discriminator_loss"} |-> Scale * d.loss_dis]

\* The networks whose parameters a backward pass reaches: loss_dis is computed
\* from the discriminator on the undetached decoded signal; the generator loss
\* passes through the discriminator only once loss_adv / feature matching are
\* real tensors (warmed up), and is a leaf-free constant there otherwise.
BackwardReaches(isDisc, w) ==
    IF isDisc THEN {"gen", "disc"}
    ELSE IF w THEN {"gen", "disc"} ELSE {"gen"}

\* Faulty variant: the discriminator branch clears the generator's gradients
DiscriminatorOpsZeroGen(w) ==
    << [f |-> "zero_grad", on |-> {"gen"}],
       [f |-> "manual_backward", on |-> BackwardReaches(TRUE, w)],
       [f |-> "step", on |-> {"disc"}] >>

\* lines 92-94
DiscriminatorOps(w) ==
    << [f |-> "zero_grad", on |-> {"disc"}],
       [f |-> "manual_backward", on |-> BackwardReaches(TRUE, w)],
       [f |-> "step", on |-> {"disc"}] >>

\* Faulty variant: the generator branch steps both optimizers
GeneratorOpsStepBoth(w) ==
    << [f |-> "zero_grad", on |-> {"gen"}],
       [f |-> "manual_backward", on |-> BackwardReaches(FALSE, w)],
       [f |-> "step", on |-> {"gen"}],
       [f |-> "step", on |-> {"disc"}] >>

\* lines 111-113
GeneratorOps(w) ==
    << [f |-> "zero_grad", on |-> {"gen"}],
       [f |-> "manual_backward", on |-> BackwardReaches(FALSE, w)],
       [f |-> "step", on |-> {"gen"}] >>

\* Gradients left by earlier calls are stale in this one.
Age(g) == IF g = {} THEN {} ELSE {"stale"}

\* torch semantics of the three calls on the .grad buffers
\* st = [gen, disc, used]: zero_grad clears, backward accumulates, step reads.
ApplyOp(st, o) ==
    CASE o.f = "zero_grad" ->
            [st EXCEPT !.gen = IF "gen" \in o.on THEN {} ELSE @,
                       !.disc = IF "disc" \in o.on THEN {} ELSE @]
      [] o.f = "manual_backward" ->
            [st EXCEPT !.gen = IF "gen" \in o.on THEN @ \cup {"fresh"} ELSE @,
                       !.disc = IF "disc" \in o.on THEN @ \cup {"fresh"} ELSE @]
      [] OTHER ->
            [st EXCEPT !.used = @ \cup (IF "gen" \in o.on THEN st.gen ELSE {})
                                  \cup (IF "disc" \in o.on THEN st.disc ELSE {})]

RECURSIVE RunOps(_, _)
RunOps(st, os) ==
    IF os = <<>> THEN st ELSE RunOps(ApplyOp(st, Head(os)), Tail(os))

\* The optimizers stepped by a sequence of calls
Stepped(os) == UNION {os[i].on : i \in {j \in DOMAIN os : os[j].f = "step"}}

\* lines 57-129
TrainingStep ==
    /\ pc = "training_step"
    /\ LET x == batch
             w == WarmedUpAfter(warmed_up, global_step, warmup_steps)
             d == DiscriminatorLosses(w, x)
             isDisc == IsDiscStep(global_step, w)
             os == IF isDisc THEN DiscriminatorOps(w) ELSE GeneratorOps(w)
             st == RunOps([gen |-> Age(gradGen), disc |-> Age(gradDisc),
                           used |-> {}], os)
         IN  /\ warmed_up' = w
             /\ callStep' = global_step
             /\ callWarm' = w
             /\ reached' = (reached \/ global_step >= warmup_steps)
             /\ backpropagated' = IF isDisc THEN Scale * d.loss_dis
                                  ELSE GeneratorLoss(x, d, bottleneck)
             /\ discEvaluated' = w
             /\ klRead' = (~isDisc /\ ReadsKl(bottleneck))
             /\ ops' = os
             /\ gradGen' = st.gen
             /\ gradDisc' = st.disc
             /\ consumed' = st.used
             /\ loss' = IF isDisc THEN Scale * d.loss_dis
                        ELSE GeneratorLoss(x, d, bottleneck)
             /\ log_dict' = IF isDisc THEN DiscriminatorLog(d)
                            ELSE GeneratorLog(x, d, bottleneck)
             /\ prevCall' = [step |-> callStep, warm |-> callWarm,
                             stepped |-> Stepped(ops)]
             /\ called' = IF called < 2 THEN called + 1 ELSE called
    /\ pc' = "advance"
    /\ UNCHANGED <<global_step, decreased, trainCfg, demoVars, demoCfg>>

\* The fit loop: one optimizer step per batch advances global_step by one.
TrainerAdvance ==
    /\ pc = "advance"
    /\ global_step < MaxStep
    /\ global_step' = global_step + 1
    /\ pc' = "training_step"
    /\ UNCHANGED <<trainVars, trainCfg, demoVars, demoCfg>>

\* A new fit on the same module object: the trainer's counter starts over,
\* the module keeps its attributes.
TrainerRestart ==
    /\ pc = "advance"
    /\ global_step' = 0
    /\ pc' = "training_step"
    /\ decreased' = (decreased \/ global_step > 0)
    /\ UNCHANGED <<warmed_up, gradGen, gradDisc, called, callStep, callWarm,
                   reached, backpropagated, discEvaluated, klRead, ops,
                   consumed, loss, log_dict, prevCall>>
    /\ UNCHANGED <<trainCfg, demoVars, demoCfg>>

\* ------------------------------------------------------ on_train_batch_end
\* Faulty variant: the comparison with last_demo_step is dropped
DueNoLatch(gs, every, last) == (gs - 1) % every = 0

\* line 150, negated: the demo is due
Due(gs, every, last) == ((gs - 1) % every = 0) /\ (last # gs)

\* line 147: @rank_zero_only runs the body on rank 0 and returns None elsewhere
RunsOnRank(r) == r = 0

\* The places of the try block (lines 156-197) that can raise, in program
\* order, with the class of what they raise; "none" is a run that raises nothing.
FailPoints == {"encode", "save_reals", "log", "none"}
Raises(fp) ==
    CASE fp = "next" -> "StopIteration"
      [] fp = "encode" -> "RuntimeError"
      [] fp = "save_reals" -> "OSError"
      [] fp = "log" -> "Error"
      [] OTHER -> "none"

\* Faulty variant: except RuntimeError
CatchesRuntimeOnly(exc) == exc = "RuntimeError"

\* line 198: except Exception catches every class raised here
Catches(exc) ==
    exc \in {"StopIteration", "RuntimeError", "OSError", "Error"}

\* lines 175-181: the wav files on disk once the run got as far as fp
FilesWritten(gs, fp) ==
    CASE fp \in {"next", "encode"} -> {}
      [] fp = "save_reals" -> {<<"recon", gs>>}
      [] OTHER -> {<<"recon", gs>>, <<"reals", gs>>}

\* The callback's own fields and what it wrote outside
Fields == <<last_demo_step, demo_dl, logged, files>>

\* lines 147-199. fp is where the try block fails when a batch is left;
\* sent tells whether a log call that raised had delivered the step.
OnTrainBatchEnd ==
    /\ \E fp0 \in FailPoints :
       \E sent \in IF fp0 = "log" THEN BOOLEAN ELSE {FALSE} :
         LET gs == global_step
             runs == RunsOnRank(rank)
             due == runs /\ Due(gs, demo_every, last_demo_step)
             fp == IF demo_dl = 0 THEN "next" ELSE fp0
             exc == Raises(fp)
         IN  /\ mono' = (mono /\ cbStep <= gs)
             /\ cbStep' = gs
             /\ IF ~due
                THEN /\ UNCHANGED <<last_demo_step, demo_dl, logged, files,
                                    started>>
                     /\ cbOutcome' = [started |-> FALSE, failed |-> "none",
                                      raised |-> "none", propagated |-> FALSE,
                                      last |-> last_demo_step,
                                      dl |-> demo_dl, again |-> FALSE,
                                      sent |-> logged' # logged,
                                      touched |-> Fields' # Fields]
                ELSE /\ last_demo_step' = gs
                     /\ started' = started \cup {gs}
                     /\ demo_dl' = IF demo_dl = 0 THEN 0 ELSE demo_dl - 1
                     /\ files' = files \cup FilesWritten(gs, fp)
                     /\ logged' = IF fp = "none" \/ (fp = "log" /\ sent)
                                  THEN logged \cup {gs} ELSE logged
                     /\ cbOutcome' = [started |-> TRUE, failed |-> fp,
                                      raised |-> exc,
                                      propagated |-> (exc # "none"
                                                      /\ ~Catches(exc)),
                                      last |-> last_demo_step,
                                      dl |-> demo_dl, again |-> gs \in started,
                                      sent |-> logged' # logged,
                                      touched |-> Fields' # Fields]
    /\ UNCHANGED <<global_step, pc, trainVars, trainCfg, demoCfg>>

\* The trainer's counter as the callback finds it: batches may end at the same
\* global_step, at a later one, or (a new fit) back at 0.
TrainerSetStep ==
    /\ \E g \in 0..MaxDemoStep :
         /\ g > global_step \/ (g = 0 /\ global_step > 0)
         /\ global_step' = g
    /\ UNCHANGED <<pc, trainVars, trainCfg, demoVars, demoCfg>>

NoOutcome ==
    [started |-> FALSE, failed |-> "none", raised |-> "none",
     propagated |-> FALSE, last |-> -1, dl |-> 0, again |-> FALSE,
     sent |-> FALSE, touched |-> FALSE]

InitDemoState ==
    /\ last_demo_step = -1
    /\ logged = {}
    /\ files = {}
    /\ started = {}
    /\ mono = TRUE
    /\ cbStep = -1
    /\ cbOutcome = NoOutcome

\* The callback as constructed (lines 133-145), with demo_dl = iter(demo_dl)
InitDemo ==
    /\ rank \in 0..MaxRank
    /\ demo_every \in 1..MaxDemoEvery
    /\ demo_dl \in 0..MaxDemoBatches
    /\ InitDemoState

\* The training wrapper as constructed (lines 16-50)
InitTrain ==
    /\ warmed_up = FALSE
    /\ warmup_steps \in 0..MaxWarmup
    /\ bottleneck \in Bottlenecks
    /\ batch \in Inputs
    /\ gradGen = {}
    /\ gradDisc = {}
    /\ called = 0
    /\ callStep = 0
    /\ callWarm = FALSE
    /\ reached = FALSE
    /\ decreased = FALSE
    /\ backpropagated = 0
    /\ discEvaluated = FALSE
    /\ klRead = FALSE
    /\ ops = <<>>
    /\ consumed = {}
    /\ loss = 0
    /\ log_dict = EmptyDict
    /\ prevCall = [step |-> 0, warm |-> FALSE, stepped |-> {}]

\* Training: every wrapper configuration and batch, one demo callback.
Init ==
    /\ global_step = 0
    /\ pc = "training_step"
    /\ InitTrain
    /\ InitDemo
    /\ rank = 0 /\ demo_every = 1 /\ demo_dl = 0

\* Demo rendering: every callback configuration, one wrapper.
DemoInit ==
    /\ global_step = 0
    /\ pc = "training_step"
    /\ InitTrain
    /\ warmup_steps = 0 /\ bottleneck = "none"
    /\ batch = [f \in DOMAIN batch |-> 0]
    /\ InitDemo

Next == TrainingStep \/ TrainerAdvance \/ TrainerRestart

Spec == Init /\ [][Next]_vars

\* The uninterrupted fit loop, which the trainer keeps running
MonoNext == TrainingStep \/ TrainerAdvance
MonoSpec == Init /\ [][MonoNext]_vars /\ WF_vars(MonoNext)

DemoNext == OnTrainBatchEnd \/ TrainerSetStep
DemoSpec == DemoInit /\ [][DemoNext]_vars

\* ===================================================================== claims
\* What the last training_step call stepped, and the log entry of a key
stepped == Stepped(ops)
IsGenCall == called >= 1 /\ stepped = {"gen"}
IsDiscCall == called >= 1 /\ stepped = {"disc"}
Logged(k) == IF k \in DOMAIN log_dict THEN log_dict[k] ELSE 0
Odd(n) == n % 2 = 1

\* C1 (safety part): two consecutive calls, global_step growing by one, both
\* with warmed_up true: the odd one steps only the discriminator optimizer and
\* the even one only the generator optimizer.
C1_Consecutive ==
    (called = 2 /\ callStep = prevCall.step + 1 /\ prevCall.warm /\ callWarm)
    => /\ {prevCall.stepped, stepped} = {{"disc"}, {"gen"}}
       /\ (stepped = {"disc"}) <=> Odd(callStep)
       /\ (prevCall.stepped = {"disc"}) <=> Odd(prevCall.step)

\* C1: once warm-up is over training_step alternates discriminator (odd
\* global_step) and generator (even global_step) steps, and in a run that goes
\* on each of the two optimizers is stepped again: from every warmed-up point
\* with two calls still to come, a later call steps the discriminator and a
\* later call steps the generator.
C1_Alternation ==
    /\ []C1_Consecutive
    /\ \A g \in 0..(MaxStep - 1) :
         (pc = "training_step" /\ global_step = g
            /\ (warmed_up \/ g >= warmup_steps))
         ~> (IsDiscCall /\ callStep >= g /\ callWarm)
    /\ \A g \in 0..(MaxStep - 1) :
         (pc = "training_step" /\ global_step = g
            /\ (warmed_up \/ g >= warmup_steps))
         ~> (IsGenCall /\ callStep >= g /\ callWarm)

C1_Witness ==
    /\ called = 2 /\ callStep = prevCall.step + 1 /\ prevCall.warm /\ callWarm
    /\ prevCall.stepped = {"gen"} /\ stepped = {"disc"}
    /\ warmup_steps > 0

\* C2: on a generator step the back-propagated loss has l1_time_loss among its
\* summands: with a positive time-domain loss it exceeds the sum of the
\* spectral, adversarial, feature-matching and KL terms.
C2_L1IsSummand ==
    (IsGenCall /\ batch.l1 > 0)
    => backpropagated > Logged("train/mrstft_loss") + Logged("train/loss_adv")
                        + Logged("train/feature_matching")
                        + Logged("train/kl_loss")

\* C3: the KL term is in the generator loss, 'train/kl_loss' is logged and
\* encoder_info['kl'] is read exactly for a "vae" bottleneck; a discriminator
\* step uses and logs no KL term whatever the bottleneck.
C3_KlOptional ==
    /\ IsGenCall =>
         /\ ("train/kl_loss" \in DOMAIN log_dict) <=> (bottleneck = "vae")
         /\ klRead <=> (bottleneck = "vae")
         /\ backpropagated
              = Logged("train/mrstft_loss") + Logged("train/loss_adv")
                + Logged("train/feature_matching")
                + (IF bottleneck = "vae" THEN batch.kl ELSE 0)
    /\ IsDiscCall =>
         /\ "train/kl_loss" \notin DOMAIN log_dict
         /\ ~klRead
         /\ backpropagated = 1000 * batch.dis

C3_Witness ==
    /\ IsGenCall /\ bottleneck = "vae" /\ batch.kl = 1 /\ klRead
    /\ Logged("train/kl_loss") = 1
    /\ backpropagated = 1000 * batch.mrstft + 1

\* C4: while no call has seen global_step >= warmup_steps the discriminator
\* loss is not evaluated, the discriminator optimizer is not stepped, the call
\* is a generator step whatever the parity, and the adversarial and
\* feature-matching summands are zero; with warmup_steps = 0 the first call
\* (global_step 0) is warmed up and is a generator step.
C4_WarmUp ==
    /\ (called >= 1 /\ ~reached) =>
         /\ ~discEvaluated
         /\ "disc" \notin stepped
         /\ stepped = {"gen"}
         /\ Logged("train/loss_adv") = 0
         /\ Logged("train/feature_matching") = 0
         /\ backpropagated = 1000 * batch.mrstft
                             + (IF bottleneck = "vae" THEN batch.kl ELSE 0)
    /\ (called = 1 /\ warmup_steps = 0 /\ callStep = 0) =>
         (callWarm /\ discEvaluated /\ stepped = {"gen"})

C4_Witness ==
    /\ called >= 1 /\ ~reached /\ Odd(callStep) /\ stepped = {"gen"}
    /\ batch.adv = 1 /\ batch.fm = 1 /\ batch.dis = 1

\* C6: every call steps exactly one optimizer, the discriminator's if
\* global_step is odd and warmed_up is true, the generator's otherwise; its
\* zero_grad, then manual_backward, then its step, and nothing on the other
\* optimizer; the value returned is the loss that was back-propagated.
C6_OneOptimizer ==
    called >= 1 =>
      LET chosen == IF Odd(callStep) /\ callWarm THEN {"disc"} ELSE {"gen"}
      IN  /\ Len(ops) = 3
          /\ ops[1].f = "zero_grad" /\ ops[1].on = chosen
          /\ ops[2].f = "manual_backward"
          /\ ops[3].f = "step" /\ ops[3].on = chosen
          /\ stepped = chosen
          /\ loss = backpropagated
          /\ loss = IF chosen = {"disc"}
                    THEN Logged("train/discriminator_loss")
                    ELSE Logged("train/loss")

C6_Witness ==
    /\ IsDiscCall /\ loss = 1000 /\ prevCall.stepped = {"gen"} /\ called = 2

\* C7: warmed_up is a latch: false at first, true from the first call that
\* reads global_step >= warmup_steps, and never false again, also when
\* global_step is later below warmup_steps; while global_step has not
\* decreased, warmed_up at the losses equals (global_step >= warmup_steps).
C7_Latch ==
    /\ warmed_up = reached
    /\ (called = 0) => ~warmed_up
    /\ (called >= 1) => (callWarm = warmed_up)
    /\ (called >= 1 /\ ~decreased) => (callWarm = (callStep >= warmup_steps))

C7_Witness ==
    /\ called >= 1 /\ decreased /\ callStep < warmup_steps
    /\ callWarm /\ warmed_up /\ pc = "advance"

C10_NoStaleGradients == called >= 1 => consumed = {"fresh"}

\* A discriminator step right after a warmed-up generator step, whose backward
\* pass left gradients on the discriminator.
C10_Witness ==
    /\ called = 2 /\ prevCall.warm /\ prevCall.stepped = {"gen"}
    /\ IsDiscCall /\ consumed = {"fresh"} /\ gradGen = {"stale", "fresh"}

\* ---- on_train_batch_end
CbCalled == cbStep >= 0
DueAt(g, last) == (g - 1) % demo_every = 0 /\ g # last

\* C5 as stated: a demo starts exactly when (global_step - 1) % demo_every = 0
\* and global_step differs from last_demo_step, a call that starts none
\* touches nothing, and while global_step never decreases a demo starts at
\* most once per global_step, never at global_step 0, and at every reached
\* step k * demo_every + 1.
C5_AsStated ==
    CbCalled =>
      /\ cbOutcome.started <=> DueAt(cbStep, cbOutcome.last)
      /\ ~cbOutcome.started => ~cbOutcome.touched
      /\ mono =>
           /\ ~cbOutcome.again
           /\ 0 \notin started
           /\ (cbStep >= 1 /\ (cbStep - 1) % demo_every = 0)
                => cbStep \in started

\* C5 amended: the same on the rank-zero process, where the demo at
\* global_step 0 is excluded only for demo_every > 1; on any other rank no
\* demo ever starts and nothing is touched.
C5_Periodic ==
    CbCalled =>
      /\ cbOutcome.started <=> (rank = 0 /\ DueAt(cbStep, cbOutcome.last))
      /\ ~cbOutcome.started => ~cbOutcome.touched
      /\ rank # 0 => started = {}
      /\ mono =>
           /\ ~cbOutcome.again
           /\ (0 \in started) => (demo_every = 1)
           /\ (rank = 0 /\ cbStep >= 1 /\ (cbStep - 1) % demo_every = 0)
                => cbStep \in started

C5_Witness ==
    /\ CbCalled /\ mono /\ rank = 0 /\ demo_every = 2
    /\ started = {1, 3} /\ cbStep = 3 /\ ~cbOutcome.started
    /\ cbOutcome.last = 3

\* C9: whatever the try block raises is caught and the callback returns;
\* last_demo_step stays at the step of the failed demo, which is not started
\* again; a failure before the log call sends nothing to the logger; once
\* demo_dl is exhausted it stays so, and every later due demo fails on next()
\* and logs nothing.
C9_DemoFailure ==
    (CbCalled /\ cbOutcome.started) =>
      /\ ~cbOutcome.propagated
      /\ last_demo_step = cbStep
      /\ mono => ~cbOutcome.again
      /\ (cbOutcome.failed \notin {"none", "log"}) => ~cbOutcome.sent
      /\ (mono /\ cbOutcome.failed \notin {"none", "log"})
           => cbStep \notin logged
      /\ (cbOutcome.dl = 0) =>
           /\ cbOutcome.failed = "next"
           /\ cbOutcome.raised = "StopIteration"
           /\ ~cbOutcome.sent
           /\ demo_dl = 0

C9_Witness ==
    /\ CbCalled /\ cbOutcome.started /\ mono
    /\ cbOutcome.dl = 0 /\ cbOutcome.raised = "StopIteration"
    /\ last_demo_step = cbStep /\ logged # {} /\ cbStep \notin logged
    /\ ~cbOutcome.propagated

====
